---------------------------- MODULE Spec2Model ----------------------------
(***************************************************************************)
(* Nissan Scraper API: the HTTP routing layer (app/main.py, app/api/*.py), *)
(* the request schema (app/schemas/vehicle.py) and the scraper service     *)
(* boundary (app/services/scraper_service.py).                             *)
(*                                                                         *)
(* Every handler is a coroutine on one asyncio event loop: a handler runs  *)
(* without interruption until it awaits something that suspends.  The GET  *)
(* handlers never suspend, so each is one step.  scrape_vehicle suspends   *)
(* at `await scraper_service.scrape_vehicle_data(...)`; the step that      *)
(* resumes it runs the rest of the handler to its response.                *)
(***************************************************************************)
EXTENDS Integers, Sequences, FiniteSets, TLC

\* Bounds of the model.
MaxReq == 2          \* scrape requests that may be suspended at the same time
MaxClock == 2        \* the UTC clock takes the readings 0..MaxClock (in ticks)
TicksPerSec == 2     \* sub-second ticks per second (1000000 microseconds, scaled)

Slots == 1..MaxReq

VARIABLES
    impl,             \* which scrape_vehicle_data body is installed on the service
    scraper_service,  \* the module-level ScraperService instance: its attributes
    req,              \* req[r]: the scrape_vehicle coroutine in slot r
    wire,             \* the response sent last
    clock,            \* the system UTC clock read by datetime.utcnow()
    healthLog,        \* the last two /health responses, the newest last
    setBack           \* the clock was set back since the newest /health response

vars == <<impl, scraper_service, req, wire, clock, healthLog, setBack>>

----------------------------------------------------------------------------
\* JSON values

JNull == [type |-> "null"]
JTrue == [type |-> "true"]
JStr(s) == [type |-> "string", text |-> s]
JNum(n) == [type |-> "number", num |-> n]
JObj(m) == [type |-> "object", members |-> m]

IsJStr(v) == v.type = "string"
IsJObj(v) == v.type = "object"
Keys(v) == DOMAIN v.members

----------------------------------------------------------------------------
\* app/schemas/vehicle.py

\* A request body: the JSON object's keys; "url" maps to any JSON value.
NoUrlBody == JObj([page |-> JNum(1)])
UrlBody(v) == JObj([url |-> v])

\* URL texts, as token sequences.
UrlTexts ==
    { <<>>,
      <<"host", "/path">>,
      <<"ftp", "://", "host">>,
      <<"http", "://">>,
      <<"http", "://", "host">>,
      <<"https", "://", "host", "/path">> }

Bodies == {NoUrlBody, UrlBody(JNum(42))} \cup {UrlBody(JStr(t)) : t \in UrlTexts}

\* HttpUrl: a string with scheme http or https, "://", a host, then path tokens.
\* url declared as a plain str.
HttpUrl_AnyString(v) == IsJStr(v)

HttpUrl(v) ==
    /\ IsJStr(v)
    /\ Len(v.text) >= 3
    /\ v.text[1] \in {"http", "https"}
    /\ v.text[2] = "://"
    /\ v.text[3] = "host"
    /\ \A i \in 4..Len(v.text) : v.text[i] = "/path"

\* VehicleRequest: url is required (Field(...)) and must be an HttpUrl.
VehicleRequest(body) ==
    /\ "url" \in Keys(body)
    /\ HttpUrl(body.members.url)

\* VehicleData: fourteen required str fields.
VehicleDataFields ==
    { "model_designation", "year", "region", "steering", "transmission_type",
      "series", "engine", "class_", "body", "additional_body",
      "additional_engine", "additional_area", "additional_grade",
      "additional_transmission" }

VehicleData(v) ==
    /\ IsJObj(v)
    /\ Keys(v) = VehicleDataFields
    /\ \A f \in Keys(v) : IsJStr(v.members[f])


----------------------------------------------------------------------------
\* app/services/scraper_service.py

\* ScraperService.__init__ sets no attribute.
ScraperService == <<>>

NoExc == [cls |-> "none", status_code |-> 0, args |-> <<>>]
Exc(cls, code, args) == [cls |-> cls, status_code |-> code, args |-> args]

Return(v) == [kind |-> "return", value |-> v, exc |-> NoExc]
Raise(e) == [kind |-> "raise", value |-> JNull, exc |-> e]
NoOutcome == [kind |-> "none", value |-> JNull, exc |-> NoExc]

\* What a filled-in scrape_vehicle_data may hand back (-> Dict[str, Any]).
FullRecord == JObj([f \in VehicleDataFields |-> JStr(<<"x">>)])
PartialRecord == JObj([f \in VehicleDataFields \ {"class_"} |-> JStr(<<"x">>)])

\* Errors a filled-in scrape_vehicle_data may raise: network failure, parse
\* failure, logic bug, and an exception that carries an HTTP status.
Errors ==
    { Exc("ConnectionError", 0, <<"timeout">>),
      Exc("ValueError", 0, <<"timeout">>),
      Exc("ValueError", 0, <<>>),
      Exc("ValueError", 0, <<"404", ": ", "gone">>),
      Exc("ValueError", 0, <<"'", "year", "'">>),
      Exc("KeyError", 0, <<"year">>),
      Exc("HTTPException", 404, <<"gone">>) }

Impls == {"stub", "filled"}

\* The placeholder raises instead of doing nothing.
StubOutcomes_Raises == {Raise(Exc("NotImplementedError", 0, <<>>))}

\* The body of scrape_vehicle_data as delivered is `...`: it returns None.
StubOutcomes == {Return(JNull)}

FilledOutcomes ==
    {Return(JNull), Return(FullRecord), Return(PartialRecord)}
        \cup {Raise(e) : e \in Errors}

\* scrape_vehicle_data(url): the outcomes of one call.
scrape_vehicle_data(i, url) ==
    IF i = "stub" THEN StubOutcomes ELSE FilledOutcomes

----------------------------------------------------------------------------
\* app/api/scraper.py

\* Classes derived from Exception: what `except Exception` catches.
IsException(e) ==
    e.cls \in {"ConnectionError", "ValueError", "KeyError", "HTTPException",
               "NotImplementedError"}

\* str(e): the single argument; KeyError shows the repr of its key;
\* HTTPException shows "<status_code>: <detail>"; no argument gives "".
Str(e) ==
    CASE e.cls = "KeyError" -> <<"'">> \o e.args \o <<"'">>
      [] e.cls = "HTTPException" -> <<ToString(e.status_code), ": ">> \o e.args
      [] OTHER -> e.args

Response(status, body) == [status |-> status, body |-> body]

\* return {"success": True, "data": result}
SuccessEnvelope(result) ==
    Response(200, JObj([success |-> JTrue, data |-> result]))

\* raise HTTPException(status_code=500, detail=str(e))
ErrorEnvelope(e) ==
    Response(500, JObj([detail |-> JStr(Str(e))]))

\* An exception that leaves the handler: the server's plain-text 500.
Uncaught == Response(500, JStr(<<"Internal Server Error">>))

\* The clause returns a failure envelope instead of raising.
ExceptClause_Returns(e) ==
    Response(200, JObj([success |-> JStr(<<"false">>), data |-> JNull,
                        detail |-> JStr(Str(e))]))

\* The clause lets an HTTPException through with its own status.
ExceptClause_ReraisesHTTP(e) ==
    IF e.cls = "HTTPException"
        THEN Response(e.status_code, JObj([detail |-> JStr(e.args)]))
        ELSE Response(500, JObj([detail |-> JStr(Str(e))]))

\* except Exception as e: ...
ExceptClause(e) ==
    IF IsException(e) THEN ErrorEnvelope(e) ELSE Uncaught

\* The 422 the validation layer builds for a body VehicleRequest rejects.
ValidationError(body) ==
    Response(422,
        JObj([detail |->
            IF "url" \in Keys(body)
                THEN JStr(<<"body", "url", "invalid">>)
                ELSE JStr(<<"body", "url", "missing">>)]))

Free == [pc |-> "free", body |-> JNull, calls |-> 0]

Sent(ep, request, outcome, calls, resp) ==
    [ep |-> ep, request |-> request, outcome |-> outcome, calls |-> calls,
     status |-> resp.status, body |-> resp.body]

NoResponse == Sent("", JNull, NoOutcome, 0, Response(0, JNull))

\* POST /api/v1/scrape-vehicle-data with a body VehicleRequest rejects:
\* the 422 is sent and scrape_vehicle is not entered.
scrape_vehicle_invalid(body) ==
    /\ ~VehicleRequest(body)
    /\ wire' = Sent("scrape", body, NoOutcome, 0, ValidationError(body))
    /\ UNCHANGED <<impl, scraper_service, req, clock, healthLog, setBack>>

\* The service keeps the URL of the call on the instance.
Invoke_StoresUrl(url) == scraper_service' = [url |-> url]

\* The call made on the service instance: it stores nothing on it.
Invoke(url) == scraper_service' = scraper_service

\* POST /api/v1/scrape-vehicle-data with a valid body: scrape_vehicle runs to
\* `await scraper_service.scrape_vehicle_data(url=request.url)`.
scrape_vehicle_await(r, body) ==
    /\ req[r].pc = "free"
    /\ VehicleRequest(body)
    /\ Invoke(body.members.url)
    /\ req' = [req EXCEPT ![r] = [pc |-> "awaiting", body |-> body,
                                  calls |-> req[r].calls + 1]]
    /\ UNCHANGED <<impl, wire, clock, healthLog, setBack>>

\* The await returns `result`: the handler returns the success envelope.
scrape_vehicle_return(r, o) ==
    /\ wire' = Sent("scrape", req[r].body, o, req[r].calls,
                    SuccessEnvelope(o.value))
    /\ req' = [req EXCEPT ![r] = Free]

\* The handler calls the service again after a failure.
scrape_vehicle_except_retry(r, o) ==
    /\ wire' = wire
    /\ req' = [req EXCEPT ![r].calls = @ + 1]

\* The await raises `e`: the except clause answers.
scrape_vehicle_except(r, o) ==
    /\ wire' = Sent("scrape", req[r].body, o, req[r].calls,
                    ExceptClause(o.exc))
    /\ req' = [req EXCEPT ![r] = Free]

\* scrape_vehicle_data finishes normally and scrape_vehicle resumes.
ServiceReturns(r) ==
    /\ req[r].pc = "awaiting"
    /\ \E o \in scrape_vehicle_data(impl, req[r].body.members.url) :
        /\ o.kind = "return"
        /\ scrape_vehicle_return(r, o)
    /\ UNCHANGED <<impl, scraper_service, clock, healthLog, setBack>>

\* scrape_vehicle_data raises and scrape_vehicle resumes in its except clause.
ServiceRaises(r) ==
    /\ req[r].pc = "awaiting"
    /\ \E o \in scrape_vehicle_data(impl, req[r].body.members.url) :
        /\ o.kind = "raise"
        /\ scrape_vehicle_except(r, o)
    /\ UNCHANGED <<impl, scraper_service, clock, healthLog, setBack>>

----------------------------------------------------------------------------
\* app/api/health.py, app/main.py

\* A GET request: its query string and the headers it carries.
GetRequests ==
    { [query |-> <<>>, headers |-> {}],
      [query |-> <<"version", "=", "2">>, headers |-> {"Origin", "Accept"}] }

\* datetime.isoformat(): the microseconds are left out when they are 0.
isoformat(t) ==
    IF t % TicksPerSec = 0
        THEN <<t \div TicksPerSec>>
        ELSE <<t \div TicksPerSec, t % TicksPerSec>>

\* datetime.utcnow(): the system clock.
utcnow == clock

\* The timestamp is cut to whole seconds.
HealthBody_Seconds(now) ==
    JObj([status |-> JStr(<<"healthy">>),
          timestamp |-> JStr(isoformat(now - (now % TicksPerSec))),
          service |-> JStr(<<"Nissan Scraper API">>)])

HealthBody(now) ==
    JObj([status |-> JStr(<<"healthy">>),
          timestamp |-> JStr(isoformat(now)),
          service |-> JStr(<<"Nissan Scraper API">>)])

\* The body carries the time of the call.
PingBody_Stamped ==
    JObj([message |-> JStr(<<"pong">>), timestamp |-> JStr(isoformat(clock))])

PingBody == JObj([message |-> JStr(<<"pong">>)])

\* The version echoes the query string when there is one.
RootBody_FromQuery(q) ==
    JObj([message |-> JStr(<<"Welcome to Nissan Scraper API">>),
          version |-> JStr(IF q.query = <<>> THEN <<"1.0.0">> ELSE q.query),
          docs |-> JStr(<<"/docs">>)])

RootBody(q) ==
    JObj([message |-> JStr(<<"Welcome to Nissan Scraper API">>),
          version |-> JStr(<<"1.0.0">>),
          docs |-> JStr(<<"/docs">>)])

\* What the log keeps of a /health response: the timestamp sent, the clock
\* reading when the handler ran, and whether the clock had been set back
\* since the response before it.
HealthEntry(body, reading, back) ==
    [timestamp |-> body.members.timestamp.text, read |-> reading,
     clockSetBack |-> back]

Newest(log, e) ==
    IF Len(log) < 2 THEN Append(log, e) ELSE <<log[2], e>>

health_check(q) ==
    /\ wire' = Sent("health", q, NoOutcome, 0, Response(200, HealthBody(utcnow)))
    /\ healthLog' = Newest(healthLog, HealthEntry(wire'.body, utcnow, setBack))
    /\ setBack' = FALSE
    /\ UNCHANGED <<impl, scraper_service, req, clock>>

ping(q) ==
    /\ wire' = Sent("ping", q, NoOutcome, 0, Response(200, PingBody))
    /\ UNCHANGED <<impl, scraper_service, req, clock, healthLog, setBack>>

root(q) ==
    /\ wire' = Sent("root", q, NoOutcome, 0, Response(200, RootBody(q)))
    /\ UNCHANGED <<impl, scraper_service, req, clock, healthLog, setBack>>

\* The system clock advances.
Tick ==
    /\ clock < MaxClock
    /\ clock' = clock + 1
    /\ UNCHANGED <<impl, scraper_service, req, wire, healthLog, setBack>>

\* The system clock is set back (an NTP step, an operator, a leap second).
SetClockBack ==
    /\ \E t \in 0..(clock - 1) : clock' = t
    /\ setBack' = TRUE
    /\ UNCHANGED <<impl, scraper_service, req, wire, healthLog>>

----------------------------------------------------------------------------

Init ==
    /\ impl \in Impls
    /\ scraper_service = ScraperService
    /\ req = [r \in Slots |-> Free]
    /\ wire = NoResponse
    /\ clock = 0
    /\ healthLog = <<>>
    /\ setBack = FALSE

Next ==
    \/ \E b \in Bodies : scrape_vehicle_invalid(b)
    \/ \E r \in Slots, b \in Bodies : scrape_vehicle_await(r, b)
    \/ \E r \in Slots : ServiceReturns(r)
    \/ \E r \in Slots : ServiceRaises(r)
    \/ \E q \in GetRequests : health_check(q)
    \/ \E q \in GetRequests : ping(q)
    \/ \E q \in GetRequests : root(q)
    \/ Tick
    \/ SetClockBack

Spec == Init /\ [][Next]_vars

----------------------------------------------------------------------------
\* Properties

Scrape == wire.ep = "scrape"

\* The instant a timestamp text stands for, in ticks.
Instant(text) ==
    text[1] * TicksPerSec + (IF Len(text) > 1 THEN text[2] ELSE 0)

\* A URL text of the shape scheme://host[/path...], whatever the scheme.
WellFormedUrl(v) ==
    /\ IsJStr(v)
    /\ Len(v.text) >= 3
    /\ v.text[2] = "://"
    /\ v.text[3] = "host"

Malformed(body) ==
    \/ "url" \notin Keys(body)
    \/ ~WellFormedUrl(body.members.url)

\* C1: a scrape request with a valid URL whose service call completes without
\* raising is answered 200 with success = true and a data object holding
\* exactly the fourteen VehicleData fields, each a string.
C1_SuccessCarriesVehicleData ==
    (Scrape /\ wire.outcome.kind = "return") =>
        /\ wire.status = 200
        /\ Keys(wire.body) = {"success", "data"}
        /\ wire.body.members.success = JTrue
        /\ VehicleData(wire.body.members.data)

\* C2: a scrape request whose body lacks url, or whose url is not a
\* well-formed URL, is answered 422 and scrape_vehicle_data is never invoked
\* for it: no coroutine is ever suspended in the service with such a body.
C2_ValidationGatesService ==
    /\ (Scrape /\ Malformed(wire.request)) =>
            /\ wire.status = 422
            /\ wire.calls = 0
            /\ wire.outcome = NoOutcome
    /\ \A r \in Slots :
            req[r].calls > 0 => (req[r].pc = "awaiting" /\ ~Malformed(req[r].body))

C2_Witness ==
    /\ Scrape
    /\ wire.status = 422
    /\ wire.calls = 0
    /\ wire.request = UrlBody(JStr(<<"host", "/path">>))

\* C3: when scrape_vehicle_data raises, the response is 500, its body holds
\* detail, equal to str(e), and neither data nor success.
C3_ErrorEnvelope ==
    (Scrape /\ wire.outcome.kind = "raise") =>
        /\ wire.status = 500
        /\ IsJObj(wire.body)
        /\ Keys(wire.body) = {"detail"}
        /\ wire.body.members.detail = JStr(Str(wire.outcome.exc))

C3_Witness ==
    /\ Scrape
    /\ wire.outcome = Raise(Exc("KeyError", 0, <<"year">>))
    /\ wire.status = 500
    /\ wire.body.members.detail.text = <<"'", "year", "'">>

HealthFixedFields ==
    wire.ep = "health" =>
        /\ wire.status = 200
        /\ Keys(wire.body) = {"status", "timestamp", "service"}
        /\ wire.body.members.status = JStr(<<"healthy">>)
        /\ wire.body.members.service = JStr(<<"Nissan Scraper API">>)

\* C4 as stated: /health answers status "healthy" and the service name, and
\* the timestamps of successive calls never decrease.
C4_TimestampsNeverDecrease ==
    /\ HealthFixedFields
    /\ Len(healthLog) = 2 =>
            Instant(healthLog[1].timestamp) <= Instant(healthLog[2].timestamp)

\* C4 amended: /health answers status "healthy" and the service name; each
\* timestamp is the reading of the UTC clock at that call; the timestamps of
\* two successive calls do not decrease unless the clock was set back
\* between them.
C4_TimestampsFollowClock ==
    /\ HealthFixedFields
    /\ \A i \in DOMAIN healthLog :
            Instant(healthLog[i].timestamp) = healthLog[i].read
    /\ (Len(healthLog) = 2 /\ ~healthLog[2].clockSetBack) =>
            Instant(healthLog[1].timestamp) <= Instant(healthLog[2].timestamp)

C4_Witness ==
    /\ wire.ep = "health"
    /\ Len(healthLog) = 2
    /\ ~healthLog[2].clockSetBack
    /\ Instant(healthLog[1].timestamp) < Instant(healthLog[2].timestamp)
    /\ Len(healthLog[2].timestamp) = 2

Others == <<impl, scraper_service, req, clock, healthLog, setBack>>

\* C5: every /ping call, whatever came before it, answers 200 with the
\* literal body {"message": "pong"} and changes nothing a later response
\* is computed from.
C5_PingIdempotent ==
    [][\A q \in GetRequests : ping(q) =>
            /\ wire'.status = 200
            /\ wire'.body = JObj([message |-> JStr(<<"pong">>)])
            /\ Others' = Others]_vars

C5_Witness ==
    /\ wire.ep = "ping"
    /\ wire.status = 200
    /\ \E r \in Slots : req[r].pc = "awaiting"
    /\ Len(healthLog) = 2

\* C6: every GET / answers 200 with the literal welcome body, whatever its
\* headers and query parameters and whatever came before it.
C6_RootLiteral ==
    wire.ep = "root" =>
        /\ wire.status = 200
        /\ wire.body = JObj([message |-> JStr(<<"Welcome to Nissan Scraper API">>),
                             version |-> JStr(<<"1.0.0">>),
                             docs |-> JStr(<<"/docs">>)])

C6_Witness ==
    /\ wire.ep = "root"
    /\ wire.request.query = <<"version", "=", "2">>
    /\ wire.request.headers # {}
    /\ \E r \in Slots : req[r].pc = "awaiting"

\* C7: requests are independent under any interleaving: no step writes the
\* shared service instance, a step of one request leaves every other
\* request's coroutine as it was, and two successive scrape responses to the
\* same input with the same service outcome are the same response, whatever
\* was suspended or answered in between.
C7_RequestsIndependent ==
    [][/\ scraper_service' = scraper_service
       /\ \A r \in Slots : req'[r] # req[r] =>
                \A o \in Slots \ {r} : req'[o] = req[o]
       /\ (/\ Scrape
           /\ wire'.ep = "scrape"
           /\ wire'.request = wire.request
           /\ wire'.outcome = wire.outcome) =>
                (wire'.status = wire.status /\ wire'.body = wire.body)]_vars

C7_Witness ==
    /\ Scrape
    /\ wire.status = 500
    /\ \E r \in Slots :
            /\ req[r].pc = "awaiting"
            /\ req[r].body # wire.request
    /\ scraper_service = ScraperService

\* C8: a scrape request invokes scrape_vehicle_data at most once and its
\* response is a 422 (no call made), a 200 carrying what the one call
\* returned, or a 500 after the one call raised; a failure is not retried
\* and is not answered with a data value.  A suspended request waits on
\* nothing but its own service call: the step that answers it is enabled.
C8_OneCallOneResponse ==
    /\ \A r \in Slots : req[r].calls <= 1
    /\ \A r \in Slots : req[r].pc = "awaiting" =>
            ENABLED (ServiceReturns(r) \/ ServiceRaises(r))
    /\ Scrape =>
        /\ wire.calls <= 1
        /\ wire.status \in {422, 200, 500}
        /\ wire.status = 422 <=> wire.calls = 0
        /\ wire.status = 200 <=> wire.outcome.kind = "return"
        /\ wire.status = 500 <=> wire.outcome.kind = "raise"
        /\ wire.status = 200 => wire.body.members.data = wire.outcome.value
        /\ wire.status = 500 =>
                (IsJObj(wire.body) /\ {"data", "success"} \cap Keys(wire.body) = {})

C8_Witness ==
    /\ Scrape
    /\ wire.status = 500
    /\ wire.calls = 1
    /\ wire.outcome.kind = "raise"

\* C9: two scrape requests answered one after the other whose service calls
\* raised errors of different classes with the same str() get the same
\* response, a 500 with that detail.
C9_ErrorKindHidden ==
    [][(/\ Scrape
        /\ wire'.ep = "scrape"
        /\ wire.outcome.kind = "raise"
        /\ wire'.outcome.kind = "raise"
        /\ wire.outcome.exc.cls # wire'.outcome.exc.cls
        /\ Str(wire.outcome.exc) = Str(wire'.outcome.exc)) =>
            /\ wire'.status = 500
            /\ wire'.status = wire.status
            /\ wire'.body = wire.body]_vars

C9_Witness ==
    /\ Scrape
    /\ wire.outcome = Raise(Exc("HTTPException", 404, <<"gone">>))
    /\ wire.status = 500
    /\ wire.body.members.detail.text = <<"404", ": ", "gone">>

\* C10: with scrape_vehicle_data as delivered, a suspended scrape request can
\* always complete by returning and never by raising, and every scrape
\* request with a valid URL is answered 200 {success: true, data: null}.
C10_StubAnswersNull ==
    impl = "stub" =>
        /\ \A r \in Slots : req[r].pc = "awaiting" =>
                (ENABLED ServiceReturns(r) /\ ~ENABLED ServiceRaises(r))
        /\ Scrape => wire.status # 500
        /\ (Scrape /\ VehicleRequest(wire.request)) =>
                /\ wire.status = 200
                /\ wire.body = JObj([success |-> JTrue, data |-> JNull])

C10_Witness ==
    /\ impl = "stub"
    /\ Scrape
    /\ wire.status = 200
    /\ wire.request = UrlBody(JStr(<<"https", "://", "host", "/path">>))
    /\ \E r \in Slots : req[r].pc = "awaiting"

=============================================================================
